---- MODULE Spec2Model ----
(***************************************************************************)
(* Model of Team-Spiral-Racing/data-service.                               *)
(*                                                                         *)
(*  - src/lib/util.py        metadata parser, lap-time parser, renderer    *)
(*  - src/api/server.py      /youtube ingest (process_ta), /blog publish   *)
(*  - src/lib/git_utils.py   GitHubAPIUtils: change detection and commits  *)
(*                                                                         *)
(* Text is modelled by TLA+ strings, taken apart character by character    *)
(* with Len and SubSeq.  Lap times are integers in milliseconds.           *)
(***************************************************************************)
EXTENDS Integers, Sequences, FiniteSets, TLC

VARIABLES
    trackTimes,     \* DATABASE["TrackTime"]: the documents, in insertion order
    details,        \* the videos().list response the last /youtube run worked on
    commits,        \* the remote repository's commit objects: [parent, tree]
    head,           \* refs/heads/main: an index into commits
    pc,             \* per /blog invocation: the network call it is about to make
    inv,            \* per /blog invocation: its locals
    response,       \* per /blog invocation: what the trigger caller was answered
    given,          \* the description extract_metadata is called with, by its parts
    returned        \* what that call of extract_metadata returned

vars == <<trackTimes, details, commits, head, pc, inv, response, given, returned>>

ingestVars == <<trackTimes, details>>
publishVars == <<commits, head, pc, inv, response>>
utilVars == <<given, returned>>

(***************************************************************************)
(* Text helpers (Python str methods used by the source).                   *)
(***************************************************************************)

Ch(s, i) == SubSeq(s, i, i)

\* str.isspace for the characters the inputs use
IsSpace(c) == c \in {" ", "\n", "\t", "\r"}

\* the least and the greatest of a non-empty set of numbers
Least(S) == CHOOSE i \in S : \A j \in S : i <= j
Greatest(S) == CHOOSE i \in S : \A j \in S : j <= i

\* the places of s that hold no white space
Inked(s) == {i \in 1..Len(s) : ~IsSpace(Ch(s, i))}

LStrip(s) == IF Inked(s) = {} THEN "" ELSE SubSeq(s, Least(Inked(s)), Len(s))

RStrip(s) == IF Inked(s) = {} THEN "" ELSE SubSeq(s, 1, Greatest(Inked(s)))

\* str.strip()
Strip(s) == RStrip(LStrip(s))

\* str.find(sub, start): the first index >= from where sub occurs, 0 when none
Find(s, sub, from) ==
    LET hits == {i \in from..(Len(s) - Len(sub) + 1) : SubSeq(s, i, i + Len(sub) - 1) = sub}
    IN  IF hits = {} THEN 0 ELSE Least(hits)

\* sub in s
Contains(s, sub) == Find(s, sub, 1) # 0

\* str.split(sep): all the pieces
RECURSIVE Split(_, _)
Split(s, sep) ==
    LET i == Find(s, sep, 1)
    IN  IF i = 0 THEN <<s>>
        ELSE <<SubSeq(s, 1, i - 1)>> \o Split(SubSeq(s, i + Len(sep), Len(s)), sep)

\* str.splitlines(): split at line breaks, no empty last line
RECURSIVE SplitLines(_)
SplitLines(s) ==
    IF Len(s) = 0 THEN <<>>
    ELSE LET n == Find(s, "\n", 1)
             r == Find(s, "\r", 1)
             i == IF n = 0 THEN r ELSE IF r = 0 THEN n ELSE IF r < n THEN r ELSE n
             w == IF i # 0 /\ i = r /\ n = r + 1 THEN 2 ELSE 1
         IN  IF i = 0 THEN <<s>>
             ELSE <<SubSeq(s, 1, i - 1)>> \o SplitLines(SubSeq(s, i + w, Len(s)))

UpperLetters == "ABCDEFGHIJKLMNOPQRSTUVWXYZ"
LowerLetters == "abcdefghijklmnopqrstuvwxyz"

LowerChar(c) ==
    LET i == Find(UpperLetters, c, 1)
    IN  IF i = 0 THEN c ELSE Ch(LowerLetters, i)

\* str.lower(), the two halves of the text apart
RECURSIVE Lower(_)
Lower(s) ==
    IF Len(s) = 0 THEN ""
    ELSE IF Len(s) = 1 THEN LowerChar(s)
    ELSE Lower(SubSeq(s, 1, Len(s) \div 2)) \o Lower(SubSeq(s, Len(s) \div 2 + 1, Len(s)))

\* str.replace(old, new) for a one-character old, the two halves of the text apart
RECURSIVE Replace(_, _, _)
Replace(s, old, new) ==
    IF Len(s) = 0 THEN ""
    ELSE IF Len(s) = 1 THEN (IF s = old THEN new ELSE s)
    ELSE Replace(SubSeq(s, 1, Len(s) \div 2), old, new)
             \o Replace(SubSeq(s, Len(s) \div 2 + 1, Len(s)), old, new)

Digits == "0123456789"

IsDigits(s) == Len(s) > 0 /\ \A i \in 1..Len(s) : Contains(Digits, Ch(s, i))

\* the value of a digit string
RECURSIVE Num(_)
Num(s) ==
    IF Len(s) = 0 THEN 0
    ELSE 10 * Num(SubSeq(s, 1, Len(s) - 1)) + (Find(Digits, Ch(s, Len(s)), 1) - 1)

(***************************************************************************)
(* src/lib/util.py: extract_metadata                                       *)
(***************************************************************************)

Marker == "==="

\* re.findall(r'===\s*(.*?)\s*===', description, re.DOTALL)[0]: the text between
\* the first marker and the next one that does not overlap it, without the
\* white space around it; found = FALSE when there are no two markers
FirstBlock(description) ==
    LET open  == Find(description, Marker, 1)
        close == IF open = 0 THEN 0 ELSE Find(description, Marker, open + Len(Marker))
    IN  IF close = 0 THEN [found |-> FALSE, block |-> ""]
        ELSE [found |-> TRUE,
              block |-> Strip(SubSeq(description, open + Len(Marker), close - 1))]

\* a mutant of PutLine: the first occurrence of a key wins
PutLineFirstWins(metadata, line) ==
    LET i == Find(line, ":", 1)
    IN  IF i = 0 THEN metadata
        ELSE LET key   == Strip(SubSeq(line, 1, i - 1))
                 value == Strip(SubSeq(line, i + 1, Len(line)))
             IN  [k \in DOMAIN metadata \cup {key} |->
                     IF k \in DOMAIN metadata THEN metadata[k] ELSE value]

\* metadata[key.strip()] = value.strip() for the line: key, value = line.split(':', 1)
PutLine(metadata, line) ==
    LET i == Find(line, ":", 1)
    IN  IF i = 0 THEN metadata
        ELSE LET key   == Strip(SubSeq(line, 1, i - 1))
                 value == Strip(SubSeq(line, i + 1, Len(line)))
             IN  [k \in DOMAIN metadata \cup {key} |->
                     IF k = key THEN value ELSE metadata[k]]

RECURSIVE PutLines(_, _)
PutLines(metadata, lines) ==
    IF lines = <<>> THEN metadata
    ELSE PutLines(PutLine(metadata, Head(lines)), Tail(lines))

EmptyDict == [k \in {} |-> ""]

extract_metadata(description) ==
    LET m == FirstBlock(description)
    IN  IF ~m.found THEN EmptyDict
        ELSE PutLines(EmptyDict, SplitLines(Strip(m.block)))

(***************************************************************************)
(* src/lib/util.py: parse_lap_time_to_seconds, in milliseconds             *)
(***************************************************************************)

Raise == [ok |-> FALSE, value |-> 0]
Return(v) == [ok |-> TRUE, value |-> v]

\* an optional sign in front of the rest
Sign(s) == IF Len(s) > 0 /\ Ch(s, 1) = "-" THEN -1 ELSE 1
Unsigned(s) == IF Len(s) > 0 /\ Ch(s, 1) \in {"-", "+"} THEN SubSeq(s, 2, Len(s)) ELSE s

\* int(text): white space around, a sign, decimal digits
PyInt(text) ==
    LET s == Strip(text)
        u == Unsigned(s)
    IN  IF IsDigits(u) THEN Return(Sign(s) * Num(u)) ELSE Raise

\* the first three decimals of a fraction's digits, as thousandths
Millis(frac) == Num(SubSeq(frac \o "000", 1, 3))

\* float(text) for decimal notation: white space around, a sign, digits with at
\* most one point and a digit on one side of it at least
PyFloat(text) ==
    LET s == Strip(text)
        u == Unsigned(s)
        p == Find(u, ".", 1)
        whole == IF p = 0 THEN u ELSE SubSeq(u, 1, p - 1)
        frac  == IF p = 0 THEN "" ELSE SubSeq(u, p + 1, Len(u))
    IN  IF /\ whole = "" \/ IsDigits(whole)
           /\ frac = "" \/ IsDigits(frac)
           /\ whole # "" \/ frac # ""
        THEN Return(Sign(s) * (1000 * Num(whole) + Millis(frac)))
        ELSE Raise

\* a mutant of parse_lap_time_to_seconds: the minutes are dropped
parse_lap_time_seconds_only(lap_time) ==
    LET parts == Split(lap_time, ":")
    IN  PyFloat(parts[Len(parts)])

parse_lap_time_to_seconds(lap_time) ==
    IF Contains(lap_time, ":")
    THEN LET parts == Split(lap_time, ":")
         IN  IF Len(parts) # 2 THEN Raise
             ELSE LET minutes == PyInt(parts[1])
                      seconds == PyFloat(parts[2])
                  IN  IF minutes.ok /\ seconds.ok
                      THEN Return(minutes.value * 60 * 1000 + seconds.value)
                      ELSE Raise
    ELSE PyFloat(lap_time)

(***************************************************************************)
(* datetime.strptime(text, "%m/%d/%Y")  (src/api/server.py:197)            *)
(***************************************************************************)

IsLeap(y) == (y % 4 = 0 /\ y % 100 # 0) \/ y % 400 = 0

DaysIn(m, y) ==
    IF m = 2 THEN (IF IsLeap(y) THEN 29 ELSE 28)
    ELSE IF m \in {4, 6, 9, 11} THEN 30 ELSE 31

\* %m and %d take one or two digits, %Y exactly four; the date must exist
strptime(text) ==
    LET parts == Split(text, "/")
    IN  IF Len(parts) # 3 THEN Raise
        ELSE IF ~(IsDigits(parts[1]) /\ IsDigits(parts[2]) /\ IsDigits(parts[3])) THEN Raise
        ELSE IF Len(parts[1]) > 2 \/ Len(parts[2]) > 2 \/ Len(parts[3]) # 4 THEN Raise
        ELSE LET m == Num(parts[1])
                 d == Num(parts[2])
                 y == Num(parts[3])
             IN  IF m \in 1..12 /\ y >= 1 /\ d \in 1..DaysIn(m, y)
                 THEN Return([year |-> y, month |-> m, day |-> d])
                 ELSE Raise

(***************************************************************************)
(* src/api/server.py: process_ta                                           *)
(***************************************************************************)

\* DATABASE["User"]: externally owned, read only
Users ==
    { [_id |-> "u1", email |-> "jon@tsr.com"],
      [_id |-> "u2", email |-> "amy@tsr.com"] }

\* DATABASE["User"].find_one({"email": email}): the matching users
FindUser(email) == {u \in Users : u.email = email}

\* dict.get(key, "")
Get(metadata, key) == IF key \in DOMAIN metadata THEN metadata[key] ELSE ""

RequiredFields == {"track", "date", "car", "time", "driver"}

ProofPrefix == "https://www.youtube.com/watch?v="

\* One pass of the loop body (server.py:185-229) up to the update_one: either
\* the document to upsert, or no upsert (continue, or an exception caught by
\* the except of the same iteration).
ItemDoc(full_video) ==
    LET metadata == extract_metadata(full_video.description)
    IN  IF DOMAIN metadata = {} THEN [upsert |-> FALSE, why |-> "no metadata"]
        ELSE IF ~(RequiredFields \subseteq DOMAIN metadata)
        THEN [upsert |-> FALSE, why |-> "KeyError"]
        ELSE LET date == strptime(metadata["date"])
                 time_seconds == parse_lap_time_to_seconds(metadata["time"])
                 driver_email == Lower(Strip(metadata["driver"]))
                 user == FindUser(driver_email)
             IN  IF ~date.ok \/ ~time_seconds.ok
                 THEN [upsert |-> FALSE, why |-> "ValueError"]
                 ELSE IF user = {} THEN [upsert |-> FALSE, why |-> "user not found"]
                 ELSE [upsert |-> TRUE,
                       doc |-> [track |-> Replace(Lower(Strip(metadata["track"])), " ", "-"),
                                configuration |-> Strip(Get(metadata, "configuration")),
                                date |-> date.value,
                                car |-> Strip(metadata["car"]),
                                tag |-> Strip(Get(metadata, "tag")),
                                time |-> time_seconds.value,
                                proof |-> ProofPrefix \o full_video.id,
                                userId |-> (CHOOSE u \in user : TRUE)._id]]

\* the index of the first document of the collection with this proof, 0 if none
RECURSIVE FirstWithProof(_, _, _)
FirstWithProof(coll, proof, i) ==
    IF i > Len(coll) THEN 0
    ELSE IF coll[i].proof = proof THEN i
    ELSE FirstWithProof(coll, proof, i + 1)

\* a mutant of update_one: insert_one, whatever the collection holds
insert_one(coll, doc) == Append(coll, doc)

\* DATABASE["TrackTime"].update_one({"proof": proof}, {"$set": doc}, upsert=True)
update_one(coll, doc) ==
    LET i == FirstWithProof(coll, doc.proof, 1)
    IN  IF i = 0 THEN Append(coll, doc)
        ELSE [coll EXCEPT ![i] = doc]

(***************************************************************************)
(* The video catalogue: what search().list and videos().list can return.   *)
(* v1 is uploaded with one description and later edited to another; v2 is  *)
(* valid; v3 stands for an upload whose description cannot be ingested.    *)
(***************************************************************************)

TATitle == "Time Attack - Buttonwillow Run"

DescA ==
    "First run of the day\n===\ntrack: Buttonwillow\nconfiguration: CW13\ndate: 06/03/2025\ncar: Hyperion\ntag: v3\ntime: 1:12.123\ndriver: Jon@TSR.com\n===\nThanks for watching"

DescB ==
    "===\ntrack:  Laguna Seca \ndate: 7/4/2025\ncar: mk2\ntime: 95.5\ndriver: amy@tsr.com\n==="

DescC ==
    "===\r\ntrack: Thunderhill\r\ndate: 02/29/2024\r\ncar: Hyperion\r\ntime: 2:03.04\r\ndriver: jon@tsr.com\r\n==="

Valid(id, description) == [id |-> id, title |-> TATitle, description |-> description]

GoodUploads == { Valid("v1", DescA), Valid("v1", DescB), Valid("v2", DescC) }

\* a description of v3 with one line of a valid block replaced (or dropped)
Broken(line) ==
    LET l(field, text) == IF line.field = field THEN line.text ELSE text
    IN  "===\n" \o l("track", "track: Sonoma\n") \o l("date", "date: 01/31/2025\n")
            \o l("car", "car: mk2\n") \o l("time", "time: 59.9\n")
            \o l("driver", "driver: amy@tsr.com\n") \o "==="

NoBlockUploads ==
    { Valid("v3", "Onboard footage, no data"),
      Valid("v3", "===\ntrack: Sonoma\ndate: 01/31/2025"),
      Valid("v3", "===\nno data yet\n===") }

BadDateUploads ==
    { Valid("v3", Broken([field |-> "date", text |-> t])) :
        t \in {"date: 2025-01-31\n", "date: 02/30/2025\n", "date: 13/01/2025\n"} }

BadTimeUploads ==
    { Valid("v3", Broken([field |-> "time", text |-> t])) :
        t \in {"time: abc\n", "time: 1:02:03\n", "time: 1.5:30\n"} }

MissingFieldUploads ==
    { Valid("v3", Broken([field |-> f, text |-> ""])) : f \in RequiredFields }

UnknownDriverUploads ==
    { Valid("v3", Broken([field |-> "driver", text |-> "driver: bob@tsr.com\n"])) }

BadUploads ==
    NoBlockUploads \cup BadDateUploads \cup BadTimeUploads
        \cup MissingFieldUploads \cup UnknownDriverUploads

\* uploads of other categories: process_raw does nothing, the rest is not routed
OtherUploads ==
    { [id |-> "v2", title |-> "Raw Footage - Thunderhill", description |-> DescC],
      [id |-> "v3", title |-> "Time Attack: no separator", description |-> DescB] }

\* an upload of the lap-time category whose title holds the separator twice
LongTitleUploads ==
    { [id |-> "v2", title |-> "Time Attack - Thunderhill - Lap 2", description |-> DescC] }

\* a description of v2 whose time carries signs that int() and float() accept
SignedTimeUploads ==
    { Valid("v2", Broken([field |-> "time", text |-> "time: -1:-5.5\n"])) }

Catalogue ==
    GoodUploads \cup BadUploads \cup OtherUploads \cup LongTitleUploads \cup SignedTimeUploads

\* the most items one search response carries in the model
MaxItems == 3

\* the responses of search().list: up to MaxItems uploads with distinct ids
Responses ==
    { r \in UNION { [1..n -> Catalogue] : n \in 0..MaxItems } :
        \A i, j \in DOMAIN r : i # j => r[i].id # r[j].id }

\* item['snippet']['title'].split(' - ')[0]  (server.py:110)
Category(title) == Split(title, " - ")[1]

\* the loop body's outcome for every upload of the catalogue, computed once
Outcome == [v \in Catalogue |-> ItemDoc(v)]

\* the category of every upload of the catalogue, computed once
Categories == [v \in Catalogue |-> Category(v.title)]

\* a mutant of ProcessItems: the try around the whole loop, so that the first
\* item without an upsert ends the batch
RECURSIVE ProcessItemsAbort(_, _)
ProcessItemsAbort(coll, items) ==
    IF items = <<>> THEN coll
    ELSE LET r == Outcome[Head(items)]
         IN  IF r.upsert THEN ProcessItemsAbort(update_one(coll, r.doc), Tail(items))
             ELSE coll

\* the loop of process_ta (server.py:184-229) over details_response["items"]
RECURSIVE ProcessItems(_, _)
ProcessItems(coll, items) ==
    IF items = <<>> THEN coll
    ELSE LET r == Outcome[Head(items)]
         IN  ProcessItems(IF r.upsert THEN update_one(coll, r.doc) ELSE coll, Tail(items))

\* /youtube (server.py:105-119): the search response is grouped by category and
\* the "Time Attack" group goes through process_ta, whose videos().list
\* response carries the same uploads; process_raw does nothing
youtube ==
    \E resp \in Responses :
        LET ta == SelectSeq(resp, LAMBDA item : Categories[item] = "Time Attack")
        IN  /\ details' = ta
            /\ trackTimes' = ProcessItems(trackTimes, ta)
            /\ UNCHANGED <<publishVars, utilVars>>

InitIngest ==
    /\ trackTimes = <<>>
    /\ details = <<>>

(***************************************************************************)
(* src/lib/util.py: format_markdown_to_blowfish                            *)
(***************************************************************************)

\* DATABASE["BlogPost"]: externally owned, read only
BlogPosts ==
    { [_id |-> "a", title |-> "Season opener", authorId |-> "u1",
       createdAt |-> [year |-> 2025, month |-> 6, day |-> 3],
       content |-> "# Round 1\nWe ran Buttonwillow.", imageRef |-> "https://img/a"],
      [_id |-> "b", title |-> "Shakedown", authorId |-> "u2",
       createdAt |-> [year |-> 2024, month |-> 11, day |-> 20],
       content |-> "", imageRef |-> "https://img/b"] }

Slugs == { post._id : post \in BlogPosts }

\* DATABASE["BlogPost"].find_one({"_id": blog_id})
PostOf(slug) == CHOOSE post \in BlogPosts : post._id = slug

\* a number as n decimal digits
RECURSIVE Zfill(_, _)
Zfill(v, n) == IF n = 0 THEN "" ELSE Zfill(v \div 10, n - 1) \o Ch(Digits, (v % 10) + 1)

\* createdAt.strftime('%Y-%m-%d')
strftime(d) == Zfill(d.year, 4) \o "-" \o Zfill(d.month, 2) \o "-" \o Zfill(d.day, 2)

SummaryLength == 100

format_markdown_to_blowfish(blog_post) ==
    LET user == CHOOSE u \in Users : u._id = blog_post.authorId
        content_length == Len(blog_post.content)
        summary_length == IF content_length # 0 THEN SummaryLength ELSE content_length
        cut == IF summary_length < content_length THEN summary_length ELSE content_length
        summary == Replace(Replace(SubSeq(blog_post.content, 1, cut), "#", ""), "\n", " ")
    IN  "---\ntitle: \"" \o blog_post.title \o "\"\ndate: " \o strftime(blog_post.createdAt)
            \o "\ndraft: false\nsummary: \"" \o Strip(summary) \o "...\"\nshowAuthor: true\n"
            \o "authors:\n  - \"" \o user.email \o "\"\n---\n\n" \o blog_post.content \o "\n"

\* the rendering of every post, computed once
Markdown == [slug \in Slugs |-> format_markdown_to_blowfish(PostOf(slug))]

(***************************************************************************)
(* src/lib/git_utils.py: GitHubAPIUtils, and the repository it talks to.   *)
(* server.py builds COMMITTER with this class's keyword arguments.         *)
(***************************************************************************)

\* the image server: what a GET of an imageRef answers when it answers
ImageAt(url) ==
    IF url = "https://img/a"
    THEN [content |-> "PNG:a", content_type |-> "image/PNG"]
    ELSE [content |-> "IMG:b", content_type |-> "application/octet-stream"]

\* download_image's choice of the extension (git_utils.py:121-137)
Extension(content_type_header) ==
    LET content_type == Lower(content_type_header)
    IN  IF Contains(content_type, "jpeg") \/ Contains(content_type, "jpg") THEN ".jpg"
        ELSE IF Contains(content_type, "png") THEN ".png"
        ELSE IF Contains(content_type, "gif") THEN ".gif"
        ELSE IF Contains(content_type, "webp") THEN ".webp"
        ELSE ".jpg"

PostDir(slug) == "content/posts/" \o slug
MarkdownPath(slug) == PostDir(slug) \o "/index.md"
ImagePath(slug) == PostDir(slug) \o "/featured" \o Extension(ImageAt(PostOf(slug).imageRef).content_type)

\* the paths and the image of every post, computed once
MarkdownPaths == [slug \in Slugs |-> MarkdownPath(slug)]
ImagePaths == [slug \in Slugs |-> ImagePath(slug)]
Images == [slug \in Slugs |-> ImageAt(PostOf(slug).imageRef).content]

\* hashlib.sha256(content).hexdigest(): one digest per content
_hash(content) == "sha256:" \o content

\* base64 as the contents API sends it, and base64.b64decode
b64encode(content) == "b64:" \o content
b64decode(text) == SubSeq(text, 5, Len(text))

None == "None"

EmptyTree == [path \in {} |-> ""]

\* the tree of the commit the branch points to
HeadTree == commits[head].tree

\* GET /contents/{path}?ref=main: the answers the API can give in this state
ContentsReplies(path) ==
    { IF path \in DOMAIN HeadTree
      THEN [status |-> 200, content |-> b64encode(HeadTree[path])]
      ELSE [status |-> 404, content |-> ""],
      [status |-> 500, content |-> ""] }

\* _get_file_info and _get_existing_hash (git_utils.py:43-88): the digest of
\* the content at the path; None on a 404 and also on any other failure
_get_existing_hash(reply) ==
    IF reply.status = 200 THEN _hash(b64decode(reply.content)) ELSE None

file_changed(reply, new_content) == _get_existing_hash(reply) # _hash(new_content)

\* among the commit objects cs, commit c is commit d or one of its ancestors
RECURSIVE AncestorIn(_, _, _)
AncestorIn(cs, c, d) ==
    IF d = 0 THEN FALSE
    ELSE IF c = d THEN TRUE
    ELSE AncestorIn(cs, c, cs[d].parent)

IsAncestor(c, d) == AncestorIn(commits, c, d)

\* a mutant of RefUpdateAccepted: the request carries "force": true
ForcedRefUpdate(commit_sha) == TRUE

\* PATCH /git/refs/heads/main with {"sha": commit_sha} and no "force"
\* (git_utils.py:284-289): the API moves the ref only fast-forward, that is
\* when the commit the ref points to is an ancestor of commit_sha
RefUpdateAccepted(commit_sha) == IsAncestor(head, commit_sha)

\* the tree POST /git/trees builds: the base tree with one entry per file
NewTree(base, files) ==
    [path \in DOMAIN base \cup DOMAIN files |->
        IF path \in DOMAIN files THEN files[path].content ELSE base[path]]

(***************************************************************************)
(* /blog invocations.  Each action is one network call of an invocation    *)
(* together with the local code that follows it up to the next call, so    *)
(* that two invocations interleave at their calls.                         *)
(***************************************************************************)

\* the /blog invocations that can be in flight together
Procs == {1, 2}

\* commit objects the repository holds at most in the model
MaxCommits == 3

NoFiles == [path \in {} |-> [content |-> "", encoding |-> ""]]

\* the locals of an invocation that has not run
NoLocals ==
    [kind |-> "none", slug |-> "", files |-> NoFiles, image |-> "none",
     latest |-> 0, tree |-> EmptyTree, commit |-> 0, result |-> "None", log |-> ""]

Idle(p) == pc[p] \in {"idle", "done"}

\* commits that invocations in flight may still create
Pending == Cardinality({p \in Procs : ~Idle(p) /\ inv[p].kind = "single" /\ inv[p].commit = 0})

Room == Len(commits) + Pending < MaxCommits

\* an invocation ends: the response to the trigger caller; of its locals the
\* model keeps what it returned and logged
End(p, locals, status) ==
    /\ inv' = [inv EXCEPT ![p] = [locals EXCEPT !.files = NoFiles, !.tree = EmptyTree,
                                               !.latest = 0]]
    /\ pc' = [pc EXCEPT ![p] = "done"]
    /\ response' = [response EXCEPT ![p] = status]

\* an invocation goes on to its next network call
Goto(p, locals, label) ==
    /\ inv' = [inv EXCEPT ![p] = locals]
    /\ pc' = [pc EXCEPT ![p] = label]
    /\ UNCHANGED response

\* a mutant of commit_files_except: the except branch returns True
commit_files_swallows == "True"

\* the return value of commit_files' except branch (git_utils.py:333-335)
commit_files_except == "False"

\* a mutant of commit_files_entry: no guard on the empty list
commit_files_unguarded(p, locals) == Goto(p, locals, "get_head")

\* commit_files up to its first call (git_utils.py:309-314), inside /blog:
\* blog() answers 200 whatever commit_files returned (server.py:145-155)
commit_files_entry(p, locals) ==
    IF DOMAIN locals.files = {}
    THEN End(p, [locals EXCEPT !.result = "False"], 200)
    ELSE Goto(p, locals, "get_head")

\* a step of commit_files raised: the except branch, then blog() answers 200
commit_files_failed(p) ==
    End(p, [inv[p] EXCEPT !.result = commit_files_except, !.log = "committing files"], 200)

\* commit_blog_post after its two checks (git_utils.py:380-389)
commit_blog_post_tail(p, locals) ==
    IF DOMAIN locals.files = {}
    THEN End(p, [locals EXCEPT !.result = "True"], 200)
    ELSE commit_files_entry(p, locals)

\* POST /blog {"blog": slug}: blog() finds the post, process_single_blog
\* renders it, commit_blog_post starts (server.py:136-145, 255-264)
StartSingle(p) ==
    /\ Idle(p) /\ Room
    /\ \E slug \in Slugs :
           Goto(p, [NoLocals EXCEPT !.kind = "single", !.slug = slug], "md_check")
    /\ UNCHANGED <<commits, head, ingestVars, utilVars>>

\* commit_blog_post: file_changed(markdown_path, markdown_bytes) (git_utils.py:355-363)
SingleCheckMarkdown(p) ==
    /\ pc[p] = "md_check" /\ inv[p].kind = "single"
    /\ \E reply \in ContentsReplies(MarkdownPaths[inv[p].slug]) :
           LET md == Markdown[inv[p].slug]
               add == [path \in {MarkdownPaths[inv[p].slug]} |->
                          [content |-> md, encoding |-> "utf-8"]]
           IN  Goto(p, [inv[p] EXCEPT !.files =
                           IF file_changed(reply, md) THEN add ELSE NoFiles], "img_dl")
    /\ UNCHANGED <<commits, head, ingestVars, utilVars>>

\* a mutant of SingleImageFailed: no try around the download, the exception
\* leaves commit_blog_post and blog() answers 500
SingleImageRaises(p) ==
    /\ pc[p] = "img_dl" /\ inv[p].kind = "single"
    /\ End(p, [inv[p] EXCEPT !.image = "failed"], 500)
    /\ UNCHANGED <<commits, head, ingestVars, utilVars>>

\* commit_blog_post: download_image raised, the except goes on with what
\* files_to_commit holds (git_utils.py:366-378)
SingleImageFailed(p) ==
    /\ pc[p] = "img_dl" /\ inv[p].kind = "single"
    /\ commit_blog_post_tail(p, [inv[p] EXCEPT !.image = "failed"])
    /\ UNCHANGED <<commits, head, ingestVars, utilVars>>

\* commit_blog_post: download_image returned (git_utils.py:367-368)
SingleImageFetched(p) ==
    /\ pc[p] = "img_dl" /\ inv[p].kind = "single"
    /\ Goto(p, [inv[p] EXCEPT !.image = "fetched"], "img_check")
    /\ UNCHANGED <<commits, head, ingestVars, utilVars>>

\* commit_blog_post: file_changed(image_path, image_bytes), then the tail
\* (git_utils.py:369-389)
SingleCheckImage(p) ==
    /\ pc[p] = "img_check" /\ inv[p].kind = "single"
    /\ \E reply \in ContentsReplies(ImagePaths[inv[p].slug]) :
           LET image_bytes == Images[inv[p].slug]
               add == [path \in {ImagePaths[inv[p].slug]} |->
                          [content |-> image_bytes, encoding |-> "base64"]]
               files == [path \in DOMAIN inv[p].files \cup DOMAIN add |->
                            IF path \in DOMAIN add THEN add[path] ELSE inv[p].files[path]]
           IN  commit_blog_post_tail(p, [inv[p] EXCEPT !.files =
                   IF file_changed(reply, image_bytes) THEN files ELSE inv[p].files])
    /\ UNCHANGED <<commits, head, ingestVars, utilVars>>

\* the order in which DATABASE["BlogPost"].find() yields the posts
SyncOrder == <<"a", "b">>

\* blog_cron_sync after a post's two checks found nothing changed: the next
\* post, or commit_files(changed_files, ...) after the last (server.py:275-301)
SyncNext(p) ==
    LET i == CHOOSE k \in DOMAIN SyncOrder : SyncOrder[k] = inv[p].slug
    IN  IF i < Len(SyncOrder)
        THEN Goto(p, [inv[p] EXCEPT !.slug = SyncOrder[i + 1], !.image = "none"], "md_check")
        ELSE commit_files_entry(p, inv[p])

\* POST /blog without a post id: blog_cron_sync starts (server.py:147-151, 272-282)
StartSync(p) ==
    /\ Idle(p)
    /\ Goto(p, [NoLocals EXCEPT !.kind = "sync", !.slug = SyncOrder[1]], "md_check")
    /\ UNCHANGED <<commits, head, ingestVars, utilVars>>

\* blog_cron_sync: file_changed(markdown_path, markdown_bytes); when it is true,
\* COMMITTER.write_file is called, which GitHubAPIUtils does not have: the
\* AttributeError leaves blog() as a 500 (server.py:283-285)
SyncCheckMarkdown(p) ==
    /\ pc[p] = "md_check" /\ inv[p].kind = "sync"
    /\ \E reply \in ContentsReplies(MarkdownPaths[inv[p].slug]) :
           IF file_changed(reply, Markdown[inv[p].slug])
           THEN End(p, [inv[p] EXCEPT !.log = "AttributeError: write_file"], 500)
           ELSE Goto(p, inv[p], "img_dl")
    /\ UNCHANGED <<commits, head, ingestVars, utilVars>>

\* blog_cron_sync: download_image, outside any try (server.py:287)
SyncDownloadImage(p) ==
    /\ pc[p] = "img_dl" /\ inv[p].kind = "sync"
    /\ \/ Goto(p, [inv[p] EXCEPT !.image = "fetched"], "img_check")
       \/ End(p, [inv[p] EXCEPT !.image = "failed"], 500)
    /\ UNCHANGED <<commits, head, ingestVars, utilVars>>

\* blog_cron_sync: file_changed(image_path, image_bytes) (server.py:288-291)
SyncCheckImage(p) ==
    /\ pc[p] = "img_check" /\ inv[p].kind = "sync"
    /\ \E reply \in ContentsReplies(ImagePaths[inv[p].slug]) :
           IF file_changed(reply, Images[inv[p].slug])
           THEN End(p, [inv[p] EXCEPT !.log = "AttributeError: write_file"], 500)
           ELSE SyncNext(p)
    /\ UNCHANGED <<commits, head, ingestVars, utilVars>>

\* commit_files: _get_latest_commit_sha (git_utils.py:314, 142-152)
GetLatestCommit(p) ==
    /\ pc[p] = "get_head"
    /\ \/ Goto(p, [inv[p] EXCEPT !.latest = head], "get_commit")
       \/ commit_files_failed(p)
    /\ UNCHANGED <<commits, head, ingestVars, utilVars>>

Binary(files) == {path \in DOMAIN files : files[path].encoding = "base64"}

\* commit_files: GET of the latest commit for its tree (git_utils.py:317-320)
GetBaseTree(p) ==
    /\ pc[p] = "get_commit"
    /\ \/ Goto(p, inv[p], IF Binary(inv[p].files) = {} THEN "mk_tree" ELSE "mk_blob")
       \/ commit_files_failed(p)
    /\ UNCHANGED <<commits, head, ingestVars, utilVars>>

\* _create_tree: _create_blob for the binary file (git_utils.py:203-211, 154-182)
CreateBlob(p) ==
    /\ pc[p] = "mk_blob"
    /\ \/ Goto(p, inv[p], "mk_tree")
       \/ commit_files_failed(p)
    /\ UNCHANGED <<commits, head, ingestVars, utilVars>>

\* _create_tree: POST /git/trees on the base tree (git_utils.py:228-236)
CreateTree(p) ==
    /\ pc[p] = "mk_tree"
    /\ \/ LET tree == NewTree(commits[inv[p].latest].tree, inv[p].files)
          IN  Goto(p, [inv[p] EXCEPT !.tree = tree], "mk_commit")
       \/ commit_files_failed(p)
    /\ UNCHANGED <<commits, head, ingestVars, utilVars>>

\* _create_commit: POST /git/commits with the latest commit as the parent
\* (git_utils.py:326-328, 238-272)
CreateCommit(p) ==
    /\ pc[p] = "mk_commit"
    /\ \/ /\ Len(commits) < MaxCommits
          /\ commits' = Append(commits, [parent |-> inv[p].latest, tree |-> inv[p].tree])
          /\ Goto(p, [inv[p] EXCEPT !.commit = Len(commits) + 1], "update_ref")
       \/ /\ commit_files_failed(p)
          /\ UNCHANGED commits
    /\ UNCHANGED <<head, ingestVars, utilVars>>

\* _update_ref (git_utils.py:274-293, 331): the PATCH moves the ref, or the API
\* refuses it (422), or the call fails; both failures return False
UpdateRef(p) ==
    /\ pc[p] = "update_ref"
    /\ \/ /\ RefUpdateAccepted(inv[p].commit)
          /\ head' = inv[p].commit
          /\ End(p, [inv[p] EXCEPT !.result = "True"], 200)
       \/ /\ ~RefUpdateAccepted(inv[p].commit)
          /\ End(p, [inv[p] EXCEPT !.result = "False", !.log = "updating ref: 422"], 200)
          /\ UNCHANGED head
       \/ /\ End(p, [inv[p] EXCEPT !.result = "False", !.log = "updating ref: failed"], 200)
          /\ UNCHANGED head
    /\ UNCHANGED <<commits, ingestVars, utilVars>>

\* someone else pushes a commit that rewrites a post's markdown by hand
OutOfBand ==
    /\ Room
    /\ LET path == MarkdownPaths["a"]
           tree == [q \in DOMAIN HeadTree \cup {path} |->
                       IF q = path THEN "edited by hand" ELSE HeadTree[q]]
       IN  /\ tree # HeadTree
           /\ commits' = Append(commits, [parent |-> head, tree |-> tree])
           /\ head' = Len(commits) + 1
    /\ UNCHANGED <<pc, inv, response, ingestVars, utilVars>>

InitPublish ==
    /\ commits = << [parent |-> 0, tree |-> EmptyTree] >>
    /\ head = 1
    /\ pc = [p \in Procs |-> "idle"]
    /\ inv = [p \in Procs |-> NoLocals]
    /\ response = [p \in Procs |-> 0]

(***************************************************************************)
(* extract_metadata called on its own, on descriptions put together from   *)
(* lines whose key and value are known.                                    *)
(***************************************************************************)

\* lines of a description: the text, and for a 'key: value' line the trimmed
\* key and value it stands for
MetadataLines ==
    { [text |-> "track: Buttonwillow", colon |-> TRUE, key |-> "track", value |-> "Buttonwillow"],
      [text |-> "  track :  Laguna Seca  ", colon |-> TRUE, key |-> "track", value |-> "Laguna Seca"],
      [text |-> "time: 1:12.123", colon |-> TRUE, key |-> "time", value |-> "1:12.123"],
      [text |-> "car:", colon |-> TRUE, key |-> "car", value |-> ""],
      [text |-> "onboard, no data", colon |-> FALSE, key |-> "", value |-> ""] }

\* the most lines a description's block holds in the model
MaxLines == 3

\* how the lines are framed: between two markers inside other text, the same
\* with CRLF line ends, followed by a second block, without any marker, after
\* a single marker
Frames == {"block", "crlf", "two blocks", "no marker", "one marker"}

Descriptions ==
    [frame : Frames, lines : UNION { [1..n -> MetadataLines] : n \in 0..MaxLines }]

\* the texts of the lines, each followed by the line end
RECURSIVE Joined(_, _)
Joined(lines, eol) ==
    IF lines = <<>> THEN ""
    ELSE Head(lines).text \o eol \o Joined(Tail(lines), eol)

\* the description: the argument of extract_metadata
TextOf(d) ==
    CASE d.frame = "block" -> "First run of the day\n===\n" \o Joined(d.lines, "\n") \o "===\nThanks"
      [] d.frame = "crlf" -> "===\r\n" \o Joined(d.lines, "\r\n") \o "==="
      [] d.frame = "two blocks" ->
             "===\n" \o Joined(d.lines, "\n") \o "===\nlap 2\n===\ntrack: Sonoma\n==="
      [] d.frame = "no marker" -> "First run of the day\n" \o Joined(d.lines, "\n")
      [] d.frame = "one marker" -> "===\n" \o Joined(d.lines, "\n")

NotCalled == [called |-> FALSE, value |-> EmptyDict]

\* metadata = extract_metadata(description)
ExtractMetadata ==
    /\ ~returned.called
    /\ returned' = [called |-> TRUE, value |-> extract_metadata(TextOf(given))]
    /\ UNCHANGED <<given, ingestVars, publishVars>>

InitUtil ==
    /\ given = [frame |-> "no marker", lines |-> <<>>]
    /\ returned = NotCalled

Init == InitIngest /\ InitPublish /\ InitUtil

\* extract_metadata alone, on every description of the model
InitMetadata ==
    /\ InitIngest /\ InitPublish
    /\ given \in Descriptions
    /\ returned = NotCalled

NextUtil == ExtractMetadata

SpecMetadata == InitMetadata /\ [][NextUtil]_vars

NextIngest == youtube

NextPublish ==
    \/ \E p \in Procs :
          \/ StartSingle(p)
          \/ SingleCheckMarkdown(p)
          \/ SingleImageFailed(p)
          \/ SingleImageFetched(p)
          \/ SingleCheckImage(p)
          \/ StartSync(p)
          \/ SyncCheckMarkdown(p)
          \/ SyncDownloadImage(p)
          \/ SyncCheckImage(p)
          \/ GetLatestCommit(p)
          \/ GetBaseTree(p)
          \/ CreateBlob(p)
          \/ CreateTree(p)
          \/ CreateCommit(p)
          \/ UpdateRef(p)
    \/ OutOfBand

\* the ingestion path alone
SpecIngest == Init /\ [][NextIngest]_vars

\* the publishing path alone
SpecPublish == Init /\ [][NextPublish]_vars

Next == NextIngest \/ NextPublish \/ NextUtil

Spec == Init /\ [][Next]_vars

(***************************************************************************)
(* Properties of the lap-time ingestion, under SpecIngest.                 *)
(***************************************************************************)

ProofOf(video) == ProofPrefix \o video.id

OnePerProof ==
    \A i, j \in DOMAIN trackTimes :
        trackTimes[i].proof = trackTimes[j].proof => i = j

\* after a run, the store holds the document of every item the run ingested
LatestWins ==
    \A i \in DOMAIN details' :
        details'[i] \in GoodUploads =>
            \E k \in DOMAIN trackTimes' : trackTimes'[k] = Outcome[details'[i]].doc

\* C1: the TrackTime store never holds two documents with the same proof URL,
\* and after every ingest run the one document of an ingested proof URL carries
\* the values of that run for all its fields, whatever it held before.
C1_UpsertLastWriteWins == []OnePerProof /\ [][LatestWins]_vars

\* v1 was stored before v2 and the last run ingested v1 again, with the
\* values of its second description
C1_Witness ==
    /\ Len(trackTimes) = 2
    /\ trackTimes[1] = Outcome[Valid("v1", DescB)].doc
    /\ trackTimes[1].track = "laguna-seca"
    /\ trackTimes[2].proof = ProofPrefix \o "v2"
    /\ details = <<Valid("v1", DescB)>>

\* the documents the store holds for a proof URL, with their places
Stored(coll, proof) == {<<k, coll[k]>> : k \in {n \in DOMAIN coll : coll[n].proof = proof}}

\* C2: in one batch, an item with no metadata block, a malformed date, a
\* malformed lap time, a missing required field or an unknown driver changes
\* nothing for its own proof URL, and the store after the batch is the store
\* the batch without these items produces, wherever they sit in the batch.
C2_BadItemSkipped ==
    [][ /\ trackTimes' =
              ProcessItems(trackTimes, SelectSeq(details', LAMBDA v : v \notin BadUploads))
        /\ \A i \in DOMAIN details' :
              details'[i] \in BadUploads =>
                  Stored(trackTimes', ProofOf(details'[i]))
                      = Stored(trackTimes, ProofOf(details'[i])) ]_vars

\* a bad item sat between two good ones, and both good ones are stored
C2_Witness ==
    /\ Len(details) = 3
    /\ details[1] \in GoodUploads /\ details[2] \in BadUploads /\ details[3] \in GoodUploads
    /\ \A i \in {1, 3} : \E k \in DOMAIN trackTimes : trackTimes[k] = Outcome[details[i]].doc
    /\ Stored(trackTimes, ProofOf(details[2])) = {}

(***************************************************************************)
(* Properties of the publishing path, under SpecPublish.                   *)
(***************************************************************************)

\* invocation p takes the step that ends it
Ends(p) == pc[p] \notin {"idle", "done"} /\ pc'[p] = "done"

\* the commit of every publish that returned True is the branch head or one
\* of its ancestors
SuccessKept ==
    \A p \in Procs :
        (pc[p] = "done" /\ inv[p].result = "True" /\ inv[p].commit # 0) =>
            IsAncestor(inv[p].commit, head)

\* C3: the commit of a publish that returned True stays in the history of the
\* branch; the branch ref only ever moves to a descendant of the commit it points
\* to, and an _update_ref made when the head is no longer the commit the
\* publish read is refused: the ref stays and commit_files returns False.
C3_NoLostUpdate ==
    /\ []SuccessKept
    /\ [][ /\ head' # head => AncestorIn(commits', head, head')
        /\ \A p \in Procs :
              (pc[p] = "update_ref" /\ Ends(p) /\ head # inv[p].latest) =>
                  (head' = head /\ inv'[p].result = "False") ]_vars

\* two publishes built their commits on the same head; the first moved the
\* ref, the second was refused
C3_Witness ==
    \E p, q \in Procs :
        /\ p # q /\ pc[p] = "done" /\ pc[q] = "done"
        /\ inv[p].commit # 0 /\ inv[q].commit # 0
        /\ commits[inv[p].commit].parent = commits[inv[q].commit].parent
        /\ inv[p].result = "True" /\ head = inv[p].commit
        /\ inv[q].result = "False" /\ inv[q].log = "updating ref: 422"

\* what commit_files logs when one of its steps fails
CommitFilesErrors == {"committing files", "updating ref: 422", "updating ref: failed"}

\* C4: the only step of a publish that moves the branch ref is the ref update
\* with which commit_files returns True; when a step of commit_files fails
\* (the read of the latest commit or of its tree, the creation of the blob,
\* the tree or the commit, the ref update), no step of that publish has moved
\* the ref and commit_files returns False.
C4_AllOrNothing ==
    [][ /\ \A p \in Procs :
              (pc'[p] # pc[p] /\ head' # head) =>
                  /\ pc[p] = "update_ref" /\ Ends(p)
                  /\ inv'[p].result = "True" /\ inv'[p].log = ""
                  /\ head' = inv[p].commit
        /\ \A p \in Procs :
              (Ends(p) /\ inv'[p].log \in CommitFilesErrors) =>
                  (head' = head /\ inv'[p].result = "False") ]_vars

\* a publish created its commit, its ref update failed, and the branch does
\* not point to that commit
C4_Witness ==
    \E p \in Procs :
        /\ pc[p] = "done" /\ inv[p].log = "updating ref: failed"
        /\ inv[p].commit # 0 /\ head # inv[p].commit
        /\ inv[p].result = "False"

\* the content at a path of the branch differs from a candidate content
Differs(path, content) ==
    path \notin DOMAIN HeadTree \/ _hash(HeadTree[path]) # _hash(content)

\* C5 (as claimed): every file a publish puts among the files to commit has a
\* digest that differs from the digest of the content at its path on the
\* branch, or its path is not there.
C5_OnlyChangedFilesCommitted ==
    [][ \A p \in Procs :
            \A path \in DOMAIN inv'[p].files \ DOMAIN inv[p].files :
                Differs(path, inv'[p].files[path].content) ]_vars

\* the candidate content of every path a full sync looks at
Candidates ==
    [path \in {MarkdownPaths[slug] : slug \in Slugs} \cup {ImagePaths[slug] : slug \in Slugs} |->
        LET slug == CHOOSE sl \in Slugs : path \in {MarkdownPaths[sl], ImagePaths[sl]}
        IN  IF path = MarkdownPaths[slug] THEN Markdown[slug] ELSE Images[slug]]

ChangedPaths == {path \in DOMAIN Candidates : Differs(path, Candidates[path])}

\* the paths a commit writes: those its tree holds differently from its parent's
Written(cs, c) ==
    {path \in DOMAIN cs[c].tree :
        path \notin DOMAIN cs[cs[c].parent].tree
            \/ cs[cs[c].parent].tree[path] # cs[c].tree[path]}

\* C6 (as claimed): a full sync that ends while some post's markdown or image
\* differs from the repository has submitted one commit that writes exactly the
\* differing paths, and a full sync that finds none submits no commit.
C6_SyncCommitsUnion ==
    [][ \A p \in Procs :
            (inv[p].kind = "sync" /\ Ends(p)) =>
                IF ChangedPaths = {} THEN inv'[p].commit = 0
                ELSE /\ inv'[p].commit # 0
                     /\ Written(commits', inv'[p].commit) = ChangedPaths ]_vars

\* C7 (as claimed): file_changed on a post's markdown returns true exactly when
\* the path is absent from the branch or the digest of the content there
\* differs from the digest of the rendered markdown.
C7_FileChangedIffDiffers ==
    [][ \A p \in Procs :
            (pc[p] = "md_check" /\ inv[p].kind = "single" /\ pc'[p] = "img_dl") =>
                ((MarkdownPaths[inv[p].slug] \in DOMAIN inv'[p].files)
                    <=> Differs(MarkdownPaths[inv[p].slug], Markdown[inv[p].slug])) ]_vars

\* the calls commit_files makes to the repository
CommitSteps == {"get_head", "get_commit", "mk_blob", "mk_tree", "mk_commit", "update_ref"}

\* no invocation is inside commit_files with no files
NoCallsForNothing ==
    \A p \in Procs : pc[p] \in CommitSteps => DOMAIN inv[p].files # {}

\* the step in which blog_cron_sync calls commit_files with the empty list:
\* the last check of the last post found nothing changed
CommitsNothing(p) ==
    /\ inv[p].kind = "sync" /\ pc[p] = "img_check"
    /\ inv[p].slug = SyncOrder[Len(SyncOrder)]
    /\ pc'[p] # pc[p] /\ inv'[p].log = ""

\* C8: commit_files called with no files returns False in that very step, with
\* no call to the repository: no commit object is added, the ref is not moved,
\* and no invocation is ever inside commit_files with no files.
C8_EmptyPublishNoOp ==
    /\ []NoCallsForNothing
    /\ [][ \A p \in Procs :
              CommitsNothing(p) =>
                  /\ pc'[p] = "done"
                  /\ inv'[p].result = "False"
                  /\ inv'[p].commit = 0
                  /\ commits' = commits
                  /\ head' = head ]_vars

\* a full sync found every file of every post unchanged and called
\* commit_files with the empty list
C8_Witness ==
    \E p \in Procs :
        /\ pc[p] = "done" /\ inv[p].kind = "sync"
        /\ inv[p].log = "" /\ inv[p].image = "fetched"
        /\ inv[p].result = "False" /\ inv[p].commit = 0
        /\ ChangedPaths = {}

\* C9: when the image download of a per-post publish fails and the markdown
\* was found changed, the publish goes on to commit_files with the markdown
\* file alone, and the tree it builds differs from the base tree at the
\* markdown path only.
C9_MarkdownOnlyOnImageFailure ==
    [][ \A p \in Procs :
            /\ (/\ pc[p] = "img_dl" /\ inv[p].kind = "single"
                /\ inv'[p].image = "failed" /\ DOMAIN inv[p].files # {}) =>
                   /\ pc'[p] = "get_head"
                   /\ DOMAIN inv'[p].files = {MarkdownPaths[inv[p].slug]}
                   /\ inv'[p].files[MarkdownPaths[inv[p].slug]].content = Markdown[inv[p].slug]
            /\ (/\ pc[p] = "mk_tree" /\ pc'[p] = "mk_commit" /\ inv[p].image = "failed") =>
                   LET base == commits[inv[p].latest].tree
                       md == MarkdownPaths[inv[p].slug]
                   IN  /\ DOMAIN inv'[p].tree = DOMAIN base \cup {md}
                       /\ inv'[p].tree[md] = Markdown[inv[p].slug]
                       /\ \A path \in DOMAIN base \ {md} : inv'[p].tree[path] = base[path] ]_vars

\* a per-post publish whose image download failed moved the branch to a commit
\* that holds the post's markdown and no image of the post
C9_Witness ==
    \E p \in Procs :
        /\ pc[p] = "done" /\ inv[p].kind = "single" /\ inv[p].image = "failed"
        /\ inv[p].result = "True" /\ head = inv[p].commit
        /\ Written(commits, head) = {MarkdownPaths[inv[p].slug]}
        /\ ImagePaths[inv[p].slug] \notin DOMAIN HeadTree

\* C10 (as claimed): a publish trigger whose repository commit or ref update
\* failed does not answer its caller with the success response.
C10_FailureSurfaced ==
    \A p \in Procs :
        (pc[p] = "done" /\ inv[p].log \in CommitFilesErrors) => response[p] # 200

\* what the caller of a publish can observe of its end: the value commit_files
\* returned and the response of /blog
Seen(p) == <<inv[p].result, response[p]>>

\* the publish ended on a ref update that the API refused because the branch
\* had moved on since the publish read its head
Conflicted(p) == pc[p] = "done" /\ inv[p].log = "updating ref: 422"

\* the publish ended on another failure of commit_files: a failed call, or the
\* empty list of files
FailedOtherwise(p) ==
    /\ pc[p] = "done" /\ inv[p].result = "False"
    /\ inv[p].log \in {"committing files", "updating ref: failed", ""}

\* C11 (as claimed): a publish that ended on a ref update refused because the
\* branch had moved on shows its caller something else than a publish that
\* ended on any other failure, and the commit the branch moved on to is still
\* the branch head or one of its ancestors.
C11_ConflictIsDistinct ==
    \A p, q \in Procs :
        (Conflicted(p) /\ FailedOtherwise(q)) =>
            /\ Seen(p) # Seen(q)
            /\ IsAncestor(commits[inv[p].commit].parent, head)

(***************************************************************************)
(* Properties of the ingested record, under SpecIngest.                    *)
(***************************************************************************)

\* descriptions with a valid block and a known driver, with the track and the
\* time (in milliseconds) their record is to carry
KnownRuns ==
    { [description |-> DescA, track |-> "buttonwillow", time |-> 60 * 1000 + 12123],
      [description |-> DescB, track |-> "laguna-seca", time |-> 95500],
      [description |-> DescC, track |-> "thunderhill", time |-> 2 * 60 * 1000 + 3040] }

\* the title is the lap-time category, or the category and the separator
\* followed by anything
TimeAttackTitle(title) ==
    \/ title = "Time Attack"
    \/ /\ Len(title) >= 14
       /\ SubSeq(title, 1, 14) = "Time Attack - "

\* C12: every item a run ingests has the lap-time category in front of the
\* first " - " of its title, and for such an item with a valid block and a
\* known driver the store holds, after the run, exactly one record under the
\* item's video URL, with the track lowercased and hyphenated and with the time
\* 60 * minutes + seconds (or the bare seconds).
C12_TimeAttackRecord ==
    [][ \A i \in DOMAIN details' :
            /\ TimeAttackTitle(details'[i].title)
            /\ \A run \in KnownRuns :
                  details'[i].description = run.description =>
                      LET proof == "https://www.youtube.com/watch?v=" \o details'[i].id
                          hits == {k \in DOMAIN trackTimes' : trackTimes'[k].proof = proof}
                      IN  /\ Cardinality(hits) = 1
                          /\ \A k \in hits : /\ trackTimes'[k].track = run.track
                                            /\ trackTimes'[k].time = run.time ]_vars

\* a run ingested v1 with the Buttonwillow description and v2 under the title
\* that holds the separator twice
C12_Witness ==
    /\ Len(details) = 2
    /\ details[1] = Valid("v1", DescA)
    /\ details[2] \in LongTitleUploads
    /\ \E k \in DOMAIN trackTimes :
          /\ trackTimes[k].proof = "https://www.youtube.com/watch?v=v1"
          /\ trackTimes[k].track = "buttonwillow"
          /\ trackTimes[k].time = 72123
    /\ \E k \in DOMAIN trackTimes :
          /\ trackTimes[k].proof = "https://www.youtube.com/watch?v=v2"
          /\ trackTimes[k].track = "thunderhill"
          /\ trackTimes[k].time = 123040

(***************************************************************************)
(* Properties of extract_metadata, under SpecMetadata.                     *)
(***************************************************************************)

\* the mapping the lines stand for: every key of a 'key: value' line, with the
\* value of the last line that has the key
MappingOf(lines) ==
    LET at(k) == {i \in DOMAIN lines : lines[i].colon /\ lines[i].key = k}
    IN  [k \in {lines[i].key : i \in {j \in DOMAIN lines : lines[j].colon}} |->
            lines[Greatest(at(k))].value]

\* the description has a block between two markers
HasBlock(d) == d.frame \in {"block", "crlf", "two blocks"}

\* no two 'key: value' lines have the same key
DistinctKeys(lines) ==
    \A i, j \in DOMAIN lines :
        (lines[i].colon /\ lines[j].colon /\ lines[i].key = lines[j].key) => i = j

\* the lines in every order
Reordered(lines) ==
    { [i \in DOMAIN lines |-> lines[f[i]]] :
        f \in {g \in [DOMAIN lines -> DOMAIN lines] :
                  \A i, j \in DOMAIN lines : g[i] = g[j] => i = j} }

\* C13: on a description with a block between two markers extract_metadata
\* returns the mapping from the trimmed key of every 'key: value' line of the
\* first block to the trimmed value of the key's last line, lines with no
\* colon left out; with distinct keys every order of the lines gives the same
\* mapping; without a block it returns the empty mapping.
C13_ExtractMetadata ==
    returned.called =>
        IF HasBlock(given)
        THEN /\ returned.value = MappingOf(given.lines)
             /\ DistinctKeys(given.lines) =>
                    \A other \in Reordered(given.lines) :
                        extract_metadata(TextOf([given EXCEPT !.lines = other]))
                            = returned.value
        ELSE returned.value = EmptyDict

\* the key track twice with white space around it, a line with no colon in
\* between: the later value is returned, trimmed
C13_Witness ==
    /\ returned.called
    /\ given.frame = "block"
    /\ Len(given.lines) = 3
    /\ given.lines[1].text = "track: Buttonwillow"
    /\ given.lines[2].text = "onboard, no data"
    /\ given.lines[3].text = "  track :  Laguna Seca  "
    /\ DOMAIN returned.value = {"track"}
    /\ returned.value["track"] = "Laguna Seca"

(***************************************************************************)
(* Publishing again, under SpecPublish.                                    *)
(***************************************************************************)

\* no other invocation has run so far
Alone(p) == \A q \in Procs \ {p} : pc[q] = "idle"

\* the branch holds the post's rendered markdown and its fetched image at
\* their paths: what a successful publish of the post leaves behind
Synced(slug) ==
    /\ MarkdownPaths[slug] \in DOMAIN HeadTree
    /\ HeadTree[MarkdownPaths[slug]] = Markdown[slug]
    /\ ImagePaths[slug] \in DOMAIN HeadTree
    /\ HeadTree[ImagePaths[slug]] = Images[slug]

\* the invocation works on posts the branch already holds as they are
NothingToPublish(p) ==
    IF inv[p].kind = "single" THEN Synced(inv[p].slug)
    ELSE \A slug \in Slugs : Synced(slug)

\* C14 (as claimed): the steps of an invocation that runs with no other
\* invocation beside it, on posts whose markdown and image the branch already
\* holds unchanged, create no commit and leave the branch ref where it is.
C14_RepublishIsNoOp ==
    [][ \A p \in Procs :
            (Alone(p) /\ ~Idle(p) /\ NothingToPublish(p) /\ pc'[p] # pc[p]) =>
                (commits' = commits /\ head' = head) ]_vars

(***************************************************************************)
(* The stored lap time, under SpecIngest.                                  *)
(***************************************************************************)

\* C15 (as claimed): every document of the TrackTime store has a time of zero
\* or more, whatever time string the lap-time parser accepted.
C15_TimeNonNegative ==
    \A k \in DOMAIN trackTimes : trackTimes[k].time >= 0

====
